---------------------------- MODULE Spec2Model ----------------------------
(***************************************************************************)
(* The real-time connection layer of rednight62/rednigh.                   *)
(*                                                                         *)
(*  - the browser client: WebSocketProvider (src/unnamed/part_006), its    *)
(*    connection state machine, heartbeat and message queue;               *)
(*  - the second provider's queue drain                                    *)
(*    (src/client/src/contexts/WebSocketContext.jsx);                      *)
(*  - the server: WebSocketServer (src/server/config/db.js).               *)
(*                                                                         *)
(* Reading of the React code.  The provider's callbacks read the state     *)
(* values `socket' and `connectionStatus' through closures.  The model     *)
(* reads the provider's current values, as if they were fields of one      *)
(* object: a setSocket/setConnectionStatus is visible to the next line.    *)
(* The provider is modelled while it is mounted (isMounted.current is      *)
(* TRUE throughout).                                                       *)
(*                                                                         *)
(* Time.  The heartbeat interval and the probe timeout are timed (their    *)
(* relation decides how many probes can be pending), counted in units of   *)
(* TimeUnit milliseconds; the reconnect timer fires at any moment up to    *)
(* its delay.  Every other timer may fire at any moment after it was       *)
(* armed.                                                                  *)
(***************************************************************************)
EXTENDS Integers, Sequences, FiniteSets, TLC

\* ------------------------------------------------------------------ bounds

\* WS_CONFIG.MAX_QUEUE_SIZE is 100 in the source; the model scales it down.
MAX_QUEUE_SIZE == 2
\* WS_CONFIG.MAX_RECONNECT_ATTEMPTS is 10 in the source; scaled down.
MAX_RECONNECT_ATTEMPTS == 2
\* processMessageQueue's batchSize is 10 in the source; scaled down.
batchSize == 2
\* transports the client may create in one behaviour
MaxSockets == 2
\* messages the application hands to sendMessage in one behaviour
MaxMsgs == 3
\* probe identifiers in use at one time (uuidv4 values in the source)
MaxPingIds == 2
\* channels that reach the server in one behaviour
MaxChannels == 2
\* user ids a verified token can decode to
MaxUsers == 2
\* messages the server handles on one channel in one behaviour
MaxSrvMsgs == 2
\* calls of the hook's request() in one behaviour
MaxRequests == 2
\* handler functions the application subscribes with on()
MaxHandlers == 2
\* sockets utils/ws.js creates in one behaviour
MaxWsSockets == 3
\* listener functions handed to addWSEventListener
MaxWsListeners == 1
\* utils/ws.js gives up after this many reconnects in a row (5 in the source)
maxReconnectAttempts == 2

\* ------------------------------------------------------- program constants

HEARTBEAT_INTERVAL == 15000
PONG_TIMEOUT == 10000
RECONNECT_BASE_DELAY == 1000
MAX_RECONNECT_DELAY == 30000
\* WebSocketContext.jsx, processMessageQueue: `retryCount >= 3'
MaxRetries == 3

RECURSIVE GCD(_, _)
GCD(a, b) == IF b = 0 THEN a ELSE GCD(b, a % b)

\* the unit in which the two timed delays are counted
TimeUnit == GCD(HEARTBEAT_INTERVAL, PONG_TIMEOUT)

HbUnits == HEARTBEAT_INTERVAL \div TimeUnit
\* a probe timeout that outlasts the heartbeat interval
PongUnitsBeyondInterval == (HEARTBEAT_INTERVAL + PONG_TIMEOUT) \div TimeUnit
PongUnits == PONG_TIMEOUT \div TimeUnit

Min(a, b) == IF a < b THEN a ELSE b

RECURSIVE Pow(_, _)
Pow(b, n) == IF n = 0 THEN 1 ELSE b * Pow(b, n - 1)

\* handleReconnect's delay is floor(min(base * 1.5^n, max) + jitter) with
\* 0 <= jitter < 1000: it is below this number of milliseconds.
reconnectDelayBound(n) ==
  Min((RECONNECT_BASE_DELAY * Pow(3, n) + Pow(2, n) - 1) \div Pow(2, n),
      MAX_RECONNECT_DELAY) + 1000

\* WS_CONFIG.MAX_RECONNECT_ATTEMPTS as the program has it (the bound
\* MAX_RECONNECT_ATTEMPTS scales it down for the state machine)
WS_CONFIG_MAX_RECONNECT_ATTEMPTS == 10

\* the exclusive upper end of `Math.random() * 1000'
MAX_JITTER == 1000

\* The delay is computed in fractions of a millisecond that hold
\* base * 1.5^n exactly for every n up to the maximum.
JitterScale == Pow(2, WS_CONFIG_MAX_RECONNECT_ATTEMPTS)

\* values of Math.random() * 1000, in 1/JitterScale ms: the ends of its
\* range, whole milliseconds, and fractions on both sides of one half
JitterSamples ==
  {0, 1, JitterScale \div 2 - 1, JitterScale \div 2, JitterScale - 1,
   JitterScale, 500 * JitterScale + 1, 999 * JitterScale,
   MAX_JITTER * JitterScale - JitterScale \div 2, MAX_JITTER * JitterScale - 1}

\* the backoff without Math.min
baseDelayUncapped(n) ==
  RECONNECT_BASE_DELAY * Pow(3, n) * (JitterScale \div Pow(2, n))
\* baseDelay = Math.min(reconnectBackoff.current * Math.pow(1.5, n),
\* MAX_RECONNECT_DELAY), in 1/JitterScale ms; reconnectBackoff.current is
\* RECONNECT_BASE_DELAY throughout
baseDelay(n) ==
  Min(RECONNECT_BASE_DELAY * Pow(3, n) * (JitterScale \div Pow(2, n)),
      MAX_RECONNECT_DELAY * JitterScale)

\* delay = Math.floor(baseDelay + jitter), in ms
reconnectDelay(n, jitter) == (baseDelay(n) + jitter) \div JitterScale

\* `delay' before handleReconnect has computed it
NoDelay == 0 - 1

\* The ticks of the model's clock a timer of that delay can outlast: the
\* whole units in it, and one more (slack = 1) when it is armed between two
\* ticks, by a transport event; a heartbeat or probe-timeout callback runs
\* on a tick (slack = 0).
reconnectDelayUnits(n, slack) ==
  (reconnectDelayBound(n) - 1) \div TimeUnit + slack

SockIds == 1..MaxSockets
PingIds == 1..MaxPingIds
Channels == 1..MaxChannels
Users == 1..MaxUsers

\* The token of a connection request: none in the URL, one that jwt.verify
\* rejects, or one that verifies and decodes to the user id u (\in Users).
NoToken == 0
BadToken == 0 - 1
\* the id of a message that carries none (undefined)
NoId == 0 - 1
Tokens == {NoToken, BadToken} \cup Users

WS_STATUS == {"CONNECTING", "CONNECTED", "DISCONNECTED", "RECONNECTING", "ERROR"}

\* ------------------------------------------------------------------- state

VARIABLES
  connectionStatus,     \* useState(WS_STATUS.DISCONNECTED)
  socket,               \* useState(null): 0 is null, else a transport id
  readyState,           \* readyState of every transport created so far
  handlers,             \* whether on{open,message,error,close} are still set
  nSockets,             \* transports created so far
  reconnectAttempts,    \* useRef(0)
  reconnectPending,     \* pending timers armed by handleReconnect
  reconnectRemaining,   \* time units within which the pending one fires
  heartbeatInterval,    \* whether the setInterval of startHeartbeat is armed
  hbRemaining,          \* time units until the next heartbeat tick
  connectionTimeout,    \* 0, or the transport the pending timeout would close
  pendingPings,         \* ids in pendingPings.current (each with its timeout)
  pingRemaining,        \* time units until a pending probe's timeout fires
  isExplicitDisconnect, \* useRef(false)
  messageQueue,         \* messageQueue.current
  drainTimers,          \* pending setTimeout(processMessageQueue, ...)
  hasToken,             \* isAuthenticated && token, from useAuth()
  received,             \* history: message ids the server received, in order
  accepted,             \* history: message ids ever accepted into the queue
  reported,             \* history: message ids reported as permanently failed
  nextMsg,              \* history: messages handed to sendMessage so far
  lastOp,               \* history: the handler that ran last
  lastArg,              \* history: its input (an id, or the code of a close)
  lastResult,           \* history: what the last sendMessage returned
  lastThrew             \* history: whether the last handler ended by throwing

clientVars ==
  << connectionStatus, socket, readyState, handlers, nSockets,
     reconnectAttempts, reconnectPending, reconnectRemaining,
     heartbeatInterval, hbRemaining,
     connectionTimeout, pendingPings, pingRemaining, isExplicitDisconnect,
     messageQueue, drainTimers, hasToken, received, accepted, reported,
     nextMsg, lastOp, lastArg, lastResult, lastThrew >>

\* WebSocketContext.jsx: the queue and one run of its processMessageQueue
VARIABLES
  ctxQueue,             \* messageQueue.current of WebSocketContext.jsx
  ctxOpen,              \* socket && socket.readyState === WebSocket.OPEN
  ctxPhase,             \* "idle", "running", "awaiting" (a send's callback)
  ctxBatch,             \* `batch': spliced-off entries that are still to be tried
  failedMessages,       \* the entries of this run whose transmission failed
  ctxTimers,            \* pending calls of processMessageQueue
  ctxReceived,          \* history: entry ids the server received, in order
  ctxReported           \* history: entry ids reported through addLog

ctxVars ==
  << ctxQueue, ctxOpen, ctxPhase, ctxBatch, failedMessages, ctxTimers,
     ctxReceived, ctxReported >>

\* server/config/db.js: class WebSocketServer
VARIABLES
  wsState,              \* ws.readyState of every channel, "NONE" before it
  reqToken,             \* the token in the channel's request URL
  clients,              \* this.clients: channel -> userId, 0 when absent
  connectionTimeouts,   \* keys of this.connectionTimeouts
  timeoutArmed,         \* channels whose connection timeout is still armed
  pingIntervals,        \* keys of this.pingIntervals (armed intervals)
  listeners,            \* channels with message/close/error/pong listeners
  sent,                 \* history: types of the messages sent to a channel
  closeCode,            \* history: code of the server's ws.close, 0 if none
  hasGlobalWebSocket,   \* whether the runtime defines the global `WebSocket'
  crashed,              \* the process died of an uncaught error or rejection
  errored,              \* history: channels whose 'error' listener has run
  lastSrvOp,            \* history: the handler of the server that ran last
  lastSrvCh,            \* history: its channel, 0 when it has none
  lastSrvThrew          \* history: whether it threw to its caller

serverVars ==
  << wsState, reqToken, clients, connectionTimeouts, timeoutArmed,
     pingIntervals, listeners, sent, closeCode, hasGlobalWebSocket, crashed,
     errored, lastSrvOp, lastSrvCh, lastSrvThrew >>

\* handleReconnect's delay, computed on its own
VARIABLES
  delayAttempt,         \* reconnectAttempts.current when the delay is computed
  delayJitter,          \* Math.random() * 1000, in 1/JitterScale milliseconds
  delay                 \* `delay', NoDelay before it is computed

delayVars == << delayAttempt, delayJitter, delay >>

\* the provider's handler table and the requests of hooks/useWebSocket
VARIABLES
  isConnected,          \* the context's isConnected as the hook sees it
  messageHandlers,      \* messageHandlers.current: Map of type -> Set
  requests              \* the promises request() has returned, in call order

hookVars == << isConnected, messageHandlers, requests >>

\* the module state of utils/ws.js
VARIABLES
  ws,                   \* `ws': index of the current socket, 0 for null
  wsSockets,            \* every WebSocket connectWS has created
  wsReconnectAttempts,  \* `reconnectAttempts'
  wsTimers,             \* reconnect timers set by onclose and not yet fired
  wsListeners,          \* `listeners'
  lastUtilOp,           \* history: the function or callback that ran last
  lastUtilSock          \* history: the socket whose callback ran, 0 if none

utilVars ==
  << ws, wsSockets, wsReconnectAttempts, wsTimers, wsListeners, lastUtilOp,
     lastUtilSock >>

vars == << clientVars, ctxVars, serverVars, delayVars, hookVars, utilVars >>

\* The provider's state as one value, so that handlers compose.
St ==
  [ connectionStatus |-> connectionStatus, socket |-> socket,
    readyState |-> readyState, handlers |-> handlers, nSockets |-> nSockets,
    reconnectAttempts |-> reconnectAttempts,
    reconnectPending |-> reconnectPending,
    reconnectRemaining |-> reconnectRemaining,
    heartbeatInterval |-> heartbeatInterval, hbRemaining |-> hbRemaining,
    connectionTimeout |-> connectionTimeout, pendingPings |-> pendingPings,
    pingRemaining |-> pingRemaining,
    isExplicitDisconnect |-> isExplicitDisconnect,
    messageQueue |-> messageQueue, drainTimers |-> drainTimers,
    hasToken |-> hasToken, received |-> received, accepted |-> accepted,
    reported |-> reported, nextMsg |-> nextMsg,
    result |-> lastResult, threw |-> FALSE ]

\* A handler has run to its end (or to an uncaught throw): s is the state.
Commit(s, op, arg) ==
  /\ connectionStatus' = s.connectionStatus
  /\ socket' = s.socket
  /\ readyState' = s.readyState
  /\ handlers' = s.handlers
  /\ nSockets' = s.nSockets
  /\ reconnectAttempts' = s.reconnectAttempts
  /\ reconnectPending' = s.reconnectPending
  /\ reconnectRemaining' = s.reconnectRemaining
  /\ heartbeatInterval' = s.heartbeatInterval
  /\ hbRemaining' = s.hbRemaining
  /\ connectionTimeout' = s.connectionTimeout
  /\ pendingPings' = s.pendingPings
  /\ pingRemaining' = s.pingRemaining
  /\ isExplicitDisconnect' = s.isExplicitDisconnect
  /\ messageQueue' = s.messageQueue
  /\ drainTimers' = s.drainTimers
  /\ hasToken' = s.hasToken
  /\ received' = s.received
  /\ accepted' = s.accepted
  /\ reported' = s.reported
  /\ nextMsg' = s.nextMsg
  /\ lastOp' = op
  /\ lastArg' = arg
  /\ lastResult' = s.result
  /\ lastThrew' = s.threw
  /\ UNCHANGED << ctxVars, serverVars, delayVars, hookVars, utilVars >>

\* the provider after its first render
ProviderInit ==
  /\ connectionStatus = "DISCONNECTED"
  /\ socket = 0
  /\ readyState = [k \in SockIds |-> "NONE"]
  /\ handlers = [k \in SockIds |-> FALSE]
  /\ nSockets = 0
  /\ reconnectAttempts = 0
  /\ reconnectPending = 0
  /\ reconnectRemaining = 0
  /\ heartbeatInterval = FALSE
  /\ hbRemaining = 0
  /\ connectionTimeout = 0
  /\ pendingPings = {}
  /\ pingRemaining = [p \in PingIds |-> 0]
  /\ isExplicitDisconnect = FALSE
  /\ messageQueue = << >>
  /\ drainTimers = 0
  /\ hasToken \in BOOLEAN
  /\ received = << >>
  /\ accepted = {}
  /\ reported = {}
  /\ nextMsg = 0
  /\ lastOp = "init"
  /\ lastArg = 0
  /\ lastResult = FALSE
  /\ lastThrew = FALSE

\* WebSocketContext.jsx before anything is queued
CtxInit ==
  /\ ctxQueue = << >>
  /\ ctxOpen = FALSE
  /\ ctxPhase = "idle"
  /\ ctxBatch = << >>
  /\ failedMessages = << >>
  /\ ctxTimers = 0
  /\ ctxReceived = << >>
  /\ ctxReported = {}

\* new WebSocketServer(server): three empty maps, no channel yet.  The
\* module reads `WebSocket.OPEN' but imports only WebSocketServer from 'ws':
\* the name is the runtime's global where there is one (Node.js 22 and
\* later), and reading it throws a ReferenceError elsewhere.
ServerInit ==
  /\ hasGlobalWebSocket \in BOOLEAN
  /\ crashed = FALSE
  /\ wsState = [c \in Channels |-> "NONE"]
  /\ reqToken = [c \in Channels |-> NoToken]
  /\ clients = [c \in Channels |-> 0]
  /\ connectionTimeouts = {}
  /\ timeoutArmed = {}
  /\ pingIntervals = {}
  /\ listeners = {}
  /\ sent = [c \in Channels |-> << >>]
  /\ closeCode = [c \in Channels |-> 0]
  /\ errored = {}
  /\ lastSrvOp = "init"
  /\ lastSrvCh = 0
  /\ lastSrvThrew = FALSE

\* Each specification below runs one of the three programs; the other two
\* stay as they are here.
ProviderIdle == ProviderInit /\ hasToken = TRUE
ServerIdle == ServerInit /\ hasGlobalWebSocket = TRUE
DelayIdle == delayAttempt = 0 /\ delayJitter = 0 /\ delay = NoDelay

\* no subscriber and no request yet (messageHandlers is `new Map()')
HookInit ==
  /\ isConnected = FALSE
  /\ messageHandlers = [t \in {} |-> {}]
  /\ requests = << >>

\* utils/ws.js as the module is loaded
UtilInit ==
  /\ ws = 0
  /\ wsSockets = << >>
  /\ wsReconnectAttempts = 0
  /\ wsTimers = 0
  /\ wsListeners = {}
  /\ lastUtilOp = "init"
  /\ lastUtilSock = 0

OthersIdle == HookInit /\ UtilInit

Init == ProviderInit /\ CtxInit /\ ServerIdle /\ DelayIdle /\ OthersIdle

\* ------------------------------------------------------- handlers (client)

SocketIsOpen(s) == s.socket # 0 /\ s.readyState[s.socket] = "OPEN"

updateStatus(s, status) == [s EXCEPT !.connectionStatus = status]

\* cleanupSocket: clears the heartbeat interval and the connection timeout,
\* then walks pendingPings calling the entry's `reject', which sendPing never
\* stores: with a probe pending the call throws a TypeError before anything
\* is deleted and before the socket is touched.  Otherwise an OPEN socket is
\* closed (1000) and the socket's four handlers are set to null.
cleanupSocket(s) ==
  LET t == [s EXCEPT !.heartbeatInterval = FALSE, !.connectionTimeout = 0]
  IN  IF t.pendingPings # {}
        THEN [t EXCEPT !.threw = TRUE]
        ELSE IF t.socket = 0
          THEN t
          ELSE [t EXCEPT
                 !.readyState[t.socket] =
                     IF @ = "OPEN" THEN "CLOSING" ELSE @,
                 !.handlers[t.socket] = FALSE]

\* handleReconnect; slack is the model's, see reconnectDelayUnits
handleReconnect(s, slack) ==
  IF \/ s.connectionStatus = "RECONNECTING"
     \/ (MAX_RECONNECT_ATTEMPTS > 0
           /\ s.reconnectAttempts >= MAX_RECONNECT_ATTEMPTS)
    THEN updateStatus(s, "ERROR")
    ELSE [s EXCEPT !.reconnectAttempts = @ + 1,
                   !.connectionStatus = "RECONNECTING",
                   !.reconnectPending = 1,
                   !.reconnectRemaining =
                       reconnectDelayUnits(s.reconnectAttempts, slack)]

\* disconnect(permanent); an exception of cleanupSocket is caught and logged.
disconnect(s, permanent) ==
  LET a == [s EXCEPT !.isExplicitDisconnect = permanent \/ @,
                     !.reconnectPending = 0,
                     !.reconnectRemaining = 0]
  IN  IF a.socket # 0
        THEN IF a.readyState[a.socket] = "OPEN"
               THEN [a EXCEPT !.readyState[a.socket] = "CLOSING"]
               ELSE LET c == cleanupSocket(a)
                    IN  IF c.threw
                          THEN [c EXCEPT !.threw = FALSE]
                          ELSE updateStatus(c, "DISCONNECTED")
        ELSE updateStatus(a, "DISCONNECTED")

\* connect(): no-op without a credential; else cleanupSocket, CONNECTING, a
\* new transport with its handlers, and the connection timeout for it.
connect(s) ==
  IF ~s.hasToken
    THEN s
    ELSE LET c == cleanupSocket(s)
             k == s.nSockets + 1
         IN  IF c.threw
               THEN c
               ELSE [c EXCEPT !.connectionStatus = "CONNECTING",
                              !.isExplicitDisconnect = FALSE,
                              !.nSockets = k,
                              !.socket = k,
                              !.readyState[k] = "CONNECTING",
                              !.handlers[k] = TRUE,
                              !.connectionTimeout = k]

\* reconnect(): disconnect(false) then connect()
reconnect(s) == connect(disconnect(s, FALSE))

\* startHeartbeat: clears the interval if armed and arms a new one.
startHeartbeat(s) ==
  [s EXCEPT !.heartbeatInterval = TRUE, !.hbRemaining = HbUnits]

\* The ids of the entries of q at the positions in keep, in q's order.
\* What socket.send does for the transport of s: "sent", "threw" (the
\* socket is null or still CONNECTING, or the transport refuses the frame:
\* ok = FALSE), or "discarded" (a CLOSING or CLOSED socket drops the data
\* without an exception).
socketSend(s, ok) ==
  IF s.socket = 0 THEN "threw"
  ELSE IF s.readyState[s.socket] = "CONNECTING" THEN "threw"
  ELSE IF s.readyState[s.socket] = "OPEN"
         THEN (IF ok THEN "sent" ELSE "threw")
  ELSE "discarded"

\* the capacity test with `<=' in place of `<'
queueHasRoomOffByOne(s) == Len(s.messageQueue) <= MAX_QUEUE_SIZE

\* messageQueue.current.length < WS_CONFIG.MAX_QUEUE_SIZE
queueHasRoom(s) == Len(s.messageQueue) < MAX_QUEUE_SIZE

\* sendMessage(message, queueIfDisconnected); m is the message, ok whether
\* the transport takes the frame.
sendMessage(s, m, queueIfDisconnected, ok) ==
  IF s.connectionStatus # "CONNECTED"
    THEN IF queueIfDisconnected /\ queueHasRoom(s)
           THEN [s EXCEPT
                  !.messageQueue =
                      Append(@, [id |-> m, retryCount |-> 0, wrapped |-> TRUE]),
                  !.accepted = @ \cup {m},
                  !.result = TRUE]
           ELSE [s EXCEPT !.result = FALSE]
    ELSE CASE socketSend(s, ok) = "sent" ->
                [s EXCEPT !.received = Append(@, m), !.result = TRUE]
           [] socketSend(s, ok) = "discarded" ->
                [s EXCEPT !.result = TRUE]
           [] OTHER ->
                IF queueIfDisconnected
                  THEN [s EXCEPT
                         !.messageQueue =
                             Append(@, [id |-> m, retryCount |-> 0,
                                        wrapped |-> TRUE]),
                         !.accepted = @ \cup {m},
                         !.result = TRUE]
                  ELSE [s EXCEPT !.result = FALSE]

\* processMessageQueue (part_006): returns at once unless the socket is
\* OPEN; else splices the first batchSize entries off the queue and, for
\* each, awaits sendMessage(message, false).  sendMessage throws only for a
\* value that is no object, which is what the `message' of a re-queued entry
\* is (the catch block spreads the message instead of wrapping it); every
\* other failure is swallowed by sendMessage, which returns false.  The
\* awaits resolve in microtasks, so no event or timer runs inside a batch.
RECURSIVE drainBatch(_, _, _, _)
drainBatch(s, batch, oks, i) ==
  IF i > Len(batch) THEN s
  ELSE LET e == batch[i]
           t == IF ~e.wrapped
                  THEN [s EXCEPT
                         !.messageQueue =
                            Append(@, [id |-> e.id,
                                       retryCount |-> e.retryCount + 1,
                                       wrapped |-> FALSE])]
                  ELSE sendMessage(s, e.id, FALSE, oks[i])
       IN  drainBatch(t, batch, oks, i + 1)

processMessageQueue(s, oks) ==
  IF ~SocketIsOpen(s)
    THEN s
    ELSE LET n == Min(batchSize, Len(s.messageQueue))
             batch == SubSeq(s.messageQueue, 1, n)
             rest == SubSeq(s.messageQueue, n + 1, Len(s.messageQueue))
             t == drainBatch([s EXCEPT !.messageQueue = rest], batch, oks, 1)
         IN  [t EXCEPT !.drainTimers =
                          IF Len(t.messageQueue) > 0 THEN @ + 1 ELSE @,
                       !.result = s.result]

\* newSocket.onopen
onopen(s, oks) ==
  processMessageQueue(
    startHeartbeat([updateStatus(s, "CONNECTED") EXCEPT !.reconnectAttempts = 0]),
    oks)

\* newSocket.onerror
onerror(s) == updateStatus(s, "ERROR")

\* newSocket.onclose
onclose(s) ==
  LET c == cleanupSocket(s)
  IN  IF c.threw THEN c
      ELSE IF c.isExplicitDisconnect
             THEN updateStatus(c, "DISCONNECTED")
             ELSE handleReconnect(updateStatus(c, "DISCONNECTED"), 1)

\* ----------------------------------------------------------------- actions

\* The outcomes of the sends of one batch of n entries; the outcome of a
\* send that does not take place is not enumerated.
OkSeqs(n) ==
  {oks \in [1..batchSize -> BOOLEAN] : \A i \in 1..batchSize : i > n => oks[i]}

\* the application calls connect()
AppConnect ==
  /\ hasToken => nSockets < MaxSockets
  /\ Commit(connect(St), "connect", 0)

\* the application calls disconnect(permanent)
AppDisconnect ==
  \E permanent \in BOOLEAN :
    Commit(disconnect(St, permanent),
           IF permanent THEN "disconnectPermanent" ELSE "disconnect", 0)

\* the application calls reconnect()
AppReconnect ==
  /\ hasToken => nSockets < MaxSockets
  /\ Commit(reconnect(St), "reconnect", 0)

\* the application calls sendMessage(message, queueIfDisconnected)
AppSendMessage ==
  /\ nextMsg < MaxMsgs
  /\ \E q \in BOOLEAN, ok \in BOOLEAN :
       /\ ok \/ (connectionStatus = "CONNECTED" /\ SocketIsOpen(St))
       /\ Commit(sendMessage([St EXCEPT !.nextMsg = @ + 1], nextMsg + 1, q, ok),
                 "sendMessage", nextMsg + 1)

\* useAuth() yields a credential, or none any more (login, logout)
AuthChange ==
  Commit([St EXCEPT !.hasToken = ~@], "authChange", 0)

\* transport k opens: onopen runs if it is still assigned
SocketOpen ==
  \E k \in SockIds :
  \E oks \in OkSeqs(IF handlers[k] THEN Len(messageQueue) ELSE 0) :
    /\ readyState[k] = "CONNECTING"
    /\ LET s == [St EXCEPT !.readyState[k] = "OPEN"]
       IN  Commit(IF handlers[k] THEN onopen(s, oks) ELSE s, "onopen", k)

\* event.code of a close event: normal closure, abnormal closure, the
\* server's authentication failures, connection timeout
CloseEventCodes == {1000, 1006, 4001, 4002, 4003, 4008}

\* Transport k closes (by the peer, the network, or the end of a close the
\* client started) with event.code = code, which onclose only logs; a
\* failed connection fires error and then close.
SocketCloseWith(codes) ==
  \E k \in SockIds, failed \in BOOLEAN, code \in codes :
    /\ readyState[k] \in {"CONNECTING", "OPEN", "CLOSING"}
    /\ LET s == [St EXCEPT !.readyState[k] = "CLOSED"]
       IN  Commit(IF handlers[k]
                    THEN onclose(IF failed THEN onerror(s) ELSE s)
                    ELSE s,
                  "onclose", code)

SocketClose == SocketCloseWith(CloseEventCodes)

\* the same with the code of an abnormal closure only
SocketCloseAbnormal == SocketCloseWith({1006})

\* the timer armed by handleReconnect fires: connect()
ReconnectTimer ==
  /\ reconnectPending > 0
  /\ hasToken => nSockets < MaxSockets
  /\ Commit(connect([St EXCEPT !.reconnectPending = @ - 1,
                              !.reconnectRemaining = 0]),
            "reconnectTimer", 0)

\* the connection timeout armed by connect() fires
ConnectionTimeout ==
  /\ connectionTimeout # 0
  /\ LET k == connectionTimeout
         s == [St EXCEPT !.connectionTimeout = 0]
     IN  Commit(IF connectionStatus = "CONNECTING"
                  THEN [s EXCEPT !.readyState[k] =
                          IF @ \in {"CONNECTING", "OPEN"} THEN "CLOSING" ELSE @]
                  ELSE s,
                "connectionTimeout", k)

\* sendPing, when the socket is OPEN: a new pending probe with its timeout,
\* then socket.send; a send that throws clears both and resolves false.
\* The heartbeat callback that awaits it calls handleReconnect on false.
sendPing(s, p, ok) ==
  IF ok
    THEN [s EXCEPT !.pendingPings = @ \cup {p},
                   !.pingRemaining[p] = PongUnits]
    ELSE handleReconnect(s, 0)

\* a tick of the heartbeat interval
HeartbeatTick ==
  /\ heartbeatInterval
  /\ hbRemaining = 0
  /\ \E p \in PingIds, ok \in BOOLEAN :
       /\ p \notin pendingPings
       /\ \A r \in PingIds : r \notin pendingPings => p <= r
       /\ LET s == [St EXCEPT !.hbRemaining = HbUnits]
          IN  Commit(IF SocketIsOpen(s) THEN sendPing(s, p, ok) ELSE s,
                     "heartbeat", p)

\* the timeout of pending probe p fires: the entry is deleted, the probe
\* resolves false and the heartbeat callback calls handleReconnect
PingTimeout ==
  \E p \in pendingPings :
    /\ pingRemaining[p] = 0
    /\ Commit(handleReconnect([St EXCEPT !.pendingPings = @ \ {p}], 0),
              "pingTimeout", p)

\* onmessage with a PONG carrying id p (0: an id that was never sent)
Pong ==
  \E p \in PingIds \cup {0} :
    /\ socket # 0
    /\ readyState[socket] = "OPEN"
    /\ handlers[socket]
    /\ Commit([St EXCEPT !.pendingPings = @ \ {p}], "pong", p)

\* onmessage with CONNECTION_ESTABLISHED: the branch logs the message and
\* breaks
ConnectionEstablished ==
  /\ socket # 0
  /\ readyState[socket] = "OPEN"
  /\ handlers[socket]
  /\ Commit(St, "connectionEstablished", 0)

\* a timer armed by processMessageQueue fires
DrainTimer ==
  /\ drainTimers > 0
  /\ \E oks \in OkSeqs(IF SocketIsOpen(St) THEN Len(messageQueue) ELSE 0) :
       Commit(processMessageQueue([St EXCEPT !.drainTimers = @ - 1], oks),
              "drainTimer", 0)

\* one unit of time passes; a timed timer that is due fires first
Advance ==
  /\ heartbeatInterval \/ pendingPings # {} \/ reconnectPending > 0
  /\ heartbeatInterval => hbRemaining > 0
  /\ reconnectPending > 0 => reconnectRemaining > 0
  /\ \A p \in pendingPings : pingRemaining[p] > 0
  /\ Commit([St EXCEPT
              !.hbRemaining = IF heartbeatInterval THEN @ - 1 ELSE @,
              !.reconnectRemaining = IF reconnectPending > 0 THEN @ - 1 ELSE @,
              !.pingRemaining =
                 [p \in PingIds |-> IF p \in pendingPings THEN @[p] - 1 ELSE @[p]]],
            "advance", 0)

\* The connection lifecycle: every handler and timer of the provider, for an
\* application that connects, disconnects and reconnects.
Next ==
  \/ AppConnect
  \/ AppDisconnect
  \/ AppReconnect
  \/ AuthChange
  \/ SocketOpen
  \/ SocketClose
  \/ ReconnectTimer
  \/ ConnectionTimeout
  \/ HeartbeatTick
  \/ PingTimeout
  \/ Pong
  \/ Advance

Spec == Init /\ [][Next]_vars

\* The message queue: an application that sends while the connection comes
\* and goes; the heartbeat's first tick lies beyond these behaviours, and
\* the code of a close, which onclose does not read, is the same throughout.
NextQueue ==
  \/ AppConnect
  \/ AppDisconnect
  \/ AppSendMessage
  \/ SocketOpen
  \/ SocketCloseAbnormal
  \/ ReconnectTimer
  \/ DrainTimer

InitQueue == Init /\ hasToken = TRUE

SpecQueue == InitQueue /\ [][NextQueue]_vars

\* The handshake: the transport opens, the server greets with
\* CONNECTION_ESTABLISHED, the connection drops and is made again, while the
\* application queues messages.
NextHandshake ==
  \/ AppConnect
  \/ AppSendMessage
  \/ SocketOpen
  \/ ConnectionEstablished
  \/ SocketCloseAbnormal
  \/ ReconnectTimer
  \/ DrainTimer

SpecHandshake == InitQueue /\ [][NextHandshake]_vars

\* ------------------------- WebSocketContext.jsx: processMessageQueue

\* Entries of the jsx queue: id is the position at which the application
\* enqueued the message, retryCount defaults to 0.
CtxEntry(i) == [id |-> i, retryCount |-> 0]

\* A call of processMessageQueue (on CONNECTION_ESTABLISHED, or from the
\* retry timer of an earlier run): returns 0 unless the socket is OPEN,
\* else splices the first batchSize entries off the queue.
CtxDrainStart ==
  /\ ctxTimers > 0
  /\ ctxTimers' = ctxTimers - 1
  /\ IF ctxOpen
     THEN LET n == Min(batchSize, Len(ctxQueue))
          IN  /\ ctxBatch' = SubSeq(ctxQueue, 1, n)
              /\ ctxQueue' = SubSeq(ctxQueue, n + 1, Len(ctxQueue))
              /\ failedMessages' = << >>
              /\ ctxPhase' = "running"
     ELSE UNCHANGED << ctxBatch, ctxQueue, failedMessages, ctxPhase >>
  /\ UNCHANGED << ctxOpen, ctxReceived, ctxReported, clientVars, serverVars, delayVars, hookVars, utilVars >>

\* One turn of the for-of loop up to its await: an entry at the retry limit
\* is reported through addLog and skipped; otherwise socket.send is called,
\* and either throws (the entry joins failedMessages with retryCount + 1)
\* or returns, and the run awaits the send's callback.
CtxLoopStep ==
  /\ ctxPhase = "running"
  /\ ctxBatch # << >>
  /\ LET e == Head(ctxBatch)
     IN  IF e.retryCount >= MaxRetries
         THEN /\ ctxReported' = ctxReported \cup {e.id}
              /\ ctxBatch' = Tail(ctxBatch)
              /\ UNCHANGED << failedMessages, ctxPhase >>
         ELSE /\ \E threw \in BOOLEAN :
                   IF threw
                   THEN /\ failedMessages' =
                             Append(failedMessages,
                                    [e EXCEPT !.retryCount = @ + 1])
                        /\ ctxBatch' = Tail(ctxBatch)
                        /\ UNCHANGED ctxPhase
                   ELSE /\ ctxPhase' = "awaiting"
                        /\ UNCHANGED << ctxBatch, failedMessages >>
              /\ UNCHANGED ctxReported
  /\ UNCHANGED << ctxQueue, ctxOpen, ctxTimers, ctxReceived, clientVars,
                  serverVars, delayVars, hookVars, utilVars >>

\* The callback handed to socket.send runs: with an error (always so when
\* the socket is no longer OPEN) the entry joins failedMessages with
\* retryCount + 1; without one the server has the message.
CtxSendCallback ==
  /\ ctxPhase = "awaiting"
  /\ \E error \in BOOLEAN :
       /\ ~ctxOpen => error
       /\ LET e == Head(ctxBatch)
          IN  IF error
              THEN /\ failedMessages' =
                        Append(failedMessages, [e EXCEPT !.retryCount = @ + 1])
                   /\ UNCHANGED ctxReceived
              ELSE /\ ctxReceived' = Append(ctxReceived, e.id)
                   /\ UNCHANGED failedMessages
  /\ ctxBatch' = Tail(ctxBatch)
  /\ ctxPhase' = "running"
  /\ UNCHANGED << ctxQueue, ctxOpen, ctxTimers, ctxReported, clientVars,
                  serverVars, delayVars, hookVars, utilVars >>

\* The socket takes the data and never runs the callback (a browser's
\* WebSocket.send has no second parameter): the promise stays pending and
\* the run never resumes.
CtxSendNoCallback ==
  /\ ctxPhase = "awaiting"
  /\ ctxPhase' = "stalled"
  /\ ctxReceived' =
       IF ctxOpen THEN Append(ctxReceived, Head(ctxBatch).id) ELSE ctxReceived
  /\ UNCHANGED << ctxQueue, ctxOpen, ctxBatch, failedMessages, ctxTimers,
                  ctxReported, clientVars, serverVars, delayVars, hookVars, utilVars >>

\* After the loop: failed entries are put back with unshift, at the head of
\* the queue, and a retry of processMessageQueue is scheduled.
CtxDrainEnd ==
  /\ ctxPhase = "running"
  /\ ctxBatch = << >>
  /\ ctxPhase' = "idle"
  /\ IF failedMessages # << >>
     THEN /\ ctxQueue' = failedMessages \o ctxQueue
          /\ ctxTimers' = ctxTimers + 1
     ELSE UNCHANGED << ctxQueue, ctxTimers >>
  /\ failedMessages' = << >>
  /\ UNCHANGED << ctxOpen, ctxBatch, ctxReceived, ctxReported, clientVars,
                  serverVars, delayVars, hookVars, utilVars >>

\* the transport of the jsx provider closes
CtxSocketClose ==
  /\ ctxOpen
  /\ ctxOpen' = FALSE
  /\ UNCHANGED << ctxQueue, ctxPhase, ctxBatch, failedMessages, ctxTimers,
                  ctxReceived, ctxReported, clientVars, serverVars, delayVars, hookVars, utilVars >>

NextCtx ==
  \/ CtxDrainStart
  \/ CtxLoopStep
  \/ CtxSendCallback
  \/ CtxSendNoCallback
  \/ CtxDrainEnd
  \/ CtxSocketClose

\* Up to MaxMsgs messages were queued while the channel was down; the
\* channel is up again and CONNECTION_ESTABLISHED has called
\* processMessageQueue.
InitCtx ==
  /\ ProviderIdle
  /\ ServerIdle
  /\ DelayIdle
  /\ OthersIdle
  /\ \E n \in 0..MaxMsgs : ctxQueue = [i \in 1..n |-> CtxEntry(i)]
  /\ ctxOpen = TRUE
  /\ ctxPhase = "idle"
  /\ ctxBatch = << >>
  /\ failedMessages = << >>
  /\ ctxTimers = 1
  /\ ctxReceived = << >>
  /\ ctxReported = {}

SpecCtx == InitCtx /\ [][NextCtx]_vars

\* ------------------------------------ server/config/db.js: WebSocketServer

\* The server's state as one value, so that its methods compose.
Sv ==
  [ wsState |-> wsState, reqToken |-> reqToken, clients |-> clients,
    connectionTimeouts |-> connectionTimeouts, timeoutArmed |-> timeoutArmed,
    pingIntervals |-> pingIntervals, listeners |-> listeners, sent |-> sent,
    closeCode |-> closeCode, crashed |-> crashed, threw |-> FALSE ]

\* A handler of the server has run to its end: s is the state, op the
\* handler and c its channel (0 when it has none).
SrvCommit(s, op, c) ==
  /\ wsState' = s.wsState
  /\ reqToken' = s.reqToken
  /\ clients' = s.clients
  /\ connectionTimeouts' = s.connectionTimeouts
  /\ timeoutArmed' = s.timeoutArmed
  /\ pingIntervals' = s.pingIntervals
  /\ listeners' = s.listeners
  /\ sent' = s.sent
  /\ closeCode' = s.closeCode
  /\ crashed' = s.crashed
  /\ errored' = IF op = "error" THEN errored \cup {c} ELSE errored
  /\ lastSrvOp' = op
  /\ lastSrvCh' = c
  /\ lastSrvThrew' = s.threw
  /\ UNCHANGED << hasGlobalWebSocket, clientVars, ctxVars, delayVars, hookVars, utilVars >>

\* jwt.verify(token, JWT_SECRET) returns the payload or throws
jwtVerifies(tok) == tok \in Users
decodedId(tok) == tok

\* a message of the protocol: its type and its id, NoId where it has none
Msg(type, id) == [type |-> type, id |-> id]

\* this.wss.clients: the channels the ws server holds, from the handshake
\* until the channel is closed
wssClients(s) == {c \in Channels : s.wsState[c] \in {"OPEN", "CLOSING"}}

\* ws.close(code, reason): an OPEN channel starts its closing handshake
wsClose(s, c, code) ==
  [s EXCEPT !.wsState[c] = IF @ = "OPEN" THEN "CLOSING" ELSE @,
            !.closeCode[c] = IF s.wsState[c] = "OPEN" THEN code ELSE @]

\* sendMessage(ws, message): throws when reading WebSocket.OPEN fails or the
\* channel is not OPEN, else hands the message to ws.send
srvSendMessage(s, c, msg) ==
  IF ~hasGlobalWebSocket \/ s.wsState[c] # "OPEN"
  THEN [s EXCEPT !.threw = TRUE]
  ELSE [s EXCEPT !.sent[c] = Append(@, msg)]

\* an error reply that also closes the channel
sendErrorAndClose(s, c) ==
  wsClose([srvSendMessage(s, c, Msg("ERROR", NoId)) EXCEPT !.threw = FALSE],
          c, 4500)
\* sendError: sendMessage(...).catch(...), a failure is only logged
sendError(s, c) ==
  [srvSendMessage(s, c, Msg("ERROR", NoId)) EXCEPT !.threw = FALSE]

\* `if (data.id)': undefined, 0 and "" are not echoed
truthy(id) == id # NoId /\ id # 0

\* handlePing: the PONG carries data.id where that is truthy
handlePing(s, c, id) ==
  srvSendMessage(s, c, Msg("PONG", IF truthy(id) THEN id ELSE NoId))

\* handleMessage: nothing for an unregistered channel; handlePing for a
\* PING; an ERROR for any other type (UNKNOWN_MESSAGE_TYPE), for text that
\* JSON.parse rejects, for JSON that is no object (INVALID_MESSAGE), and
\* when handlePing's sendMessage threw
handleMessage(s, c, kind, id) ==
  IF s.clients[c] = 0 THEN s
  ELSE IF kind = "PING"
       THEN LET r == handlePing(s, c, id)
            IN  IF r.threw THEN sendError(s, c) ELSE r
       ELSE sendError(s, c)

\* the 'message' listener: a message above MAX_MESSAGE_SIZE is answered
\* with an ERROR (MESSAGE_TOO_LARGE), any other goes to handleMessage
onMessage(s, c, kind, id) ==
  IF kind = "TOO_LARGE" THEN sendError(s, c) ELSE handleMessage(s, c, kind, id)

\* clearInterval and clearTimeout of a handle that is not in its map
cleanupClientThrowsWhenAbsent(s, c) ==
  [s EXCEPT !.pingIntervals = @ \ {c},
            !.connectionTimeouts = @ \ {c},
            !.timeoutArmed = IF c \in s.connectionTimeouts THEN @ \ {c} ELSE @,
            !.clients[c] = 0,
            !.threw = c \notin s.pingIntervals]
\* cleanupClient: the ping interval and the connection timeout are cleared
\* and deleted where the maps have them; the channel leaves this.clients
cleanupClient(s, c) ==
  [s EXCEPT !.pingIntervals = @ \ {c},
            !.connectionTimeouts = @ \ {c},
            !.timeoutArmed = IF c \in s.connectionTimeouts THEN @ \ {c} ELSE @,
            !.clients[c] = 0]

\* The 'connection' handler for a new channel c whose URL carries tok: the
\* timeout is armed; without a token the channel is closed with 4002, with
\* one that fails verification with 4003, and the handler returns; else
\* the timeout is cleared, the channel registered, the ping interval armed,
\* the welcome sent and the listeners attached.  The promise of a
\* sendMessage that throws is rejected with nobody handling it, which ends
\* the process.
connection(s0, c, tok) ==
  LET s == [s0 EXCEPT !.wsState[c] = "OPEN", !.reqToken[c] = tok,
                      !.connectionTimeouts = @ \cup {c},
                      !.timeoutArmed = @ \cup {c}]
  IN  IF tok = NoToken THEN wsClose(s, c, 4002)
      ELSE IF ~jwtVerifies(tok) THEN wsClose(s, c, 4003)
      ELSE LET a == [s EXCEPT !.timeoutArmed = @ \ {c},
                              !.connectionTimeouts = @ \ {c},
                              !.clients[c] = decodedId(tok),
                              !.pingIntervals = @ \cup {c}]
               w == srvSendMessage(a, c, Msg("CONNECTION_ESTABLISHED", NoId))
           IN  [w EXCEPT !.listeners = @ \cup {c},
                         !.crashed = w.threw, !.threw = FALSE]

\* broadcast's filter with includeOnly taking precedence over exclude
broadcastTargetsIncludeOnlyFirst(s, exclude, filtered, includeOnly) ==
  {c \in wssClients(s) :
     /\ s.wsState[c] = "OPEN"
     /\ IF filtered THEN s.clients[c] \in includeOnly
                    ELSE s.clients[c] \notin exclude}
\* broadcast's two filters: with includeOnly (filtered: it is not null) the
\* channels whose entry's userId it includes; of these the OPEN ones whose
\* userId exclude does not include.  this.clients.get(client)?.userId of an
\* unregistered channel is undefined (0 here).
broadcastTargets(s, exclude, filtered, includeOnly) ==
  {c \in wssClients(s) :
     /\ filtered => s.clients[c] \in includeOnly
     /\ s.wsState[c] = "OPEN"
     /\ s.clients[c] \notin exclude}

\* broadcast(message, { exclude, includeOnly }): client.send to each target;
\* the test of the first channel that passed includeOnly reads WebSocket.OPEN
broadcast(s, exclude, filtered, includeOnly) ==
  LET list == {c \in wssClients(s) : filtered => s.clients[c] \in includeOnly}
      to == broadcastTargets(s, exclude, filtered, includeOnly)
  IN  IF list # {} /\ ~hasGlobalWebSocket THEN [s EXCEPT !.threw = TRUE]
      ELSE [s EXCEPT !.sent = [c \in Channels |->
              IF c \in to THEN Append(@[c], Msg("BROADCAST", NoId)) ELSE @[c]]]

\* the values `===' compares in sendToUser: this.clients.get(client) is the
\* { userId, connectionId, ip } object that 'connection' stored, or
\* undefined; the argument is a user id
clientsGet(s, c) ==
  IF s.clients[c] = 0 THEN [is |-> "undefined"]
  ELSE [is |-> "object", userId |-> s.clients[c]]
idValue(u) == [is |-> "id", value |-> u]
strictEquals(a, b) == a = b

\* sendToUser(userId, message): client.send to every OPEN channel whose
\* entry in this.clients === userId
sendToUser(s, u) ==
  LET to == {c \in wssClients(s) :
               /\ s.wsState[c] = "OPEN"
               /\ strictEquals(clientsGet(s, c), idValue(u))}
  IN  IF wssClients(s) # {} /\ ~hasGlobalWebSocket
      THEN [s EXCEPT !.threw = TRUE]
      ELSE [s EXCEPT !.sent = [c \in Channels |->
              IF c \in to THEN Append(@[c], Msg("UNICAST", NoId)) ELSE @[c]]]

\* a client reaches the server on a new channel
Connection ==
  \E c \in Channels, tok \in Tokens :
    /\ ~crashed
    /\ wsState[c] = "NONE"
    /\ \A d \in Channels : d < c => wsState[d] # "NONE"
    /\ SrvCommit(connection(Sv, c, tok), "connection", c)

\* The connection timeout of channel c fires: an OPEN channel is closed
\* with 4008; an error thrown in the callback is uncaught.
SrvConnectionTimeout ==
  \E c \in timeoutArmed :
    /\ ~crashed
    /\ LET s == [Sv EXCEPT !.timeoutArmed = @ \ {c}]
       IN  SrvCommit(IF ~hasGlobalWebSocket THEN [s EXCEPT !.crashed = TRUE]
                     ELSE wsClose(s, c, 4008), "timeout", c)

\* The ping interval of channel c fires: ws.ping() on an OPEN channel; an
\* error thrown in the callback is uncaught.
SrvPingInterval ==
  \E c \in pingIntervals :
    /\ ~crashed
    /\ SrvCommit(IF ~hasGlobalWebSocket THEN [Sv EXCEPT !.crashed = TRUE]
                 ELSE Sv, "pingInterval", c)

\* the 'pong' listener: the pong is logged
SrvPong ==
  \E c \in listeners :
    /\ ~crashed
    /\ wsState[c] \in {"OPEN", "CLOSING"}
    /\ SrvCommit(Sv, "pong", c)

\* the number of messages the server has sent, over all channels
RECURSIVE TotalSent(_, _)
TotalSent(s, n) == IF n = 0 THEN 0 ELSE Len(s[n]) + TotalSent(s, n - 1)

SrvMessageKinds == {"PING", "OTHER", "NONOBJECT", "MALFORMED", "TOO_LARGE"}

\* the ids a PING may carry: none, the number 0, two that are not zero
SrvPingIds == {NoId, 0, 1, 2}

\* a message arrives on channel c: the 'message' listener
SrvMessage ==
  \E c \in listeners, kind \in SrvMessageKinds :
    \E id \in IF kind = "PING" THEN SrvPingIds ELSE {NoId} :
      /\ ~crashed
      /\ wsState[c] \in {"OPEN", "CLOSING"}
      /\ TotalSent(sent, MaxChannels) <= MaxSrvMsgs
      /\ SrvCommit(onMessage(Sv, c, kind, id), "message", c)

\* the application broadcasts
Broadcast ==
  \E exclude \in SUBSET Users, filtered \in BOOLEAN :
    \E includeOnly \in IF filtered THEN SUBSET Users ELSE {{}} :
      /\ ~crashed
      /\ TotalSent(sent, MaxChannels) <= MaxSrvMsgs
      /\ SrvCommit(broadcast(Sv, exclude, filtered, includeOnly),
                   "broadcast", 0)

\* the application sends to one user
SendToUser ==
  \E u \in Users :
    /\ ~crashed
    /\ TotalSent(sent, MaxChannels) <= MaxSrvMsgs
    /\ SrvCommit(sendToUser(Sv, u), "sendToUser", 0)

\* channel c is closed (by the peer, or the closing handshake ends): the
\* 'close' listener, where one is attached
WsClosed ==
  \E c \in Channels :
    /\ ~crashed
    /\ wsState[c] \in {"OPEN", "CLOSING"}
    /\ LET s == [Sv EXCEPT !.wsState[c] = "CLOSED"]
       IN  SrvCommit(IF c \in listeners THEN cleanupClient(s, c) ELSE s,
                     "close", c)

\* Channel c emits 'error': ws has left OPEN by the time it emits the event;
\* the 'error' listener, where one is attached; an 'error' event without a
\* listener is thrown.
WsError ==
  \E c \in Channels :
    /\ ~crashed
    /\ wsState[c] \in {"OPEN", "CLOSING"}
    /\ LET s == [Sv EXCEPT !.wsState[c] = "CLOSING"]
       IN  SrvCommit(IF c \in listeners THEN cleanupClient(s, c)
                     ELSE [s EXCEPT !.crashed = TRUE], "error", c)

NextServer ==
  \/ Connection
  \/ SrvConnectionTimeout
  \/ SrvPingInterval
  \/ SrvPong
  \/ SrvMessage
  \/ WsClosed
  \/ WsError

InitServer ==
  ProviderIdle /\ CtxInit /\ ServerInit /\ DelayIdle /\ OthersIdle

SpecServer == InitServer /\ [][NextServer]_vars

\* the life of the channels: handshake, messages, end
NextChannel ==
  \/ Connection
  \/ SrvMessage
  \/ WsClosed
  \/ WsError

SpecChannel == InitServer /\ [][NextChannel]_vars

\* the registry and the application's sends to it
NextRegistry ==
  \/ Connection
  \/ Broadcast
  \/ SendToUser
  \/ WsClosed
  \/ WsError

SpecRegistry == InitServer /\ [][NextRegistry]_vars

\* ------------------------------------- handleReconnect's delay, on its own

\* handleReconnect computes its delay: the attempt counter is below
\* MAX_RECONNECT_ATTEMPTS when it gets there
ComputeDelay ==
  /\ delay = NoDelay
  /\ delayAttempt < WS_CONFIG_MAX_RECONNECT_ATTEMPTS
  /\ delay' = reconnectDelay(delayAttempt, delayJitter)
  /\ UNCHANGED << delayAttempt, delayJitter, clientVars, ctxVars, serverVars,
                  hookVars, utilVars >>

\* the next call of handleReconnect without a CONNECTION_ESTABLISHED between
NextAttempt ==
  /\ delay # NoDelay
  /\ delayAttempt < WS_CONFIG_MAX_RECONNECT_ATTEMPTS
  /\ delayAttempt' = delayAttempt + 1
  /\ \E j \in JitterSamples : delayJitter' = j
  /\ delay' = NoDelay
  /\ UNCHANGED << clientVars, ctxVars, serverVars, hookVars, utilVars >>

NextDelay == ComputeDelay \/ NextAttempt

InitDelay ==
  /\ ProviderIdle /\ CtxInit /\ ServerIdle /\ OthersIdle
  /\ delayAttempt = 0
  /\ delayJitter \in JitterSamples
  /\ delay = NoDelay

SpecDelay == InitDelay /\ [][NextDelay]_vars

\* ------------------------------------- handler table and request (hook)

\* message types the application subscribes to and requests answer with
RequestTypes == {"A", "B"}
responseType(type) == IF type = "A" THEN "A_RESPONSE" ELSE "B_RESPONSE"
EventTypes == {responseType(type) : type \in RequestTypes}

\* the functions the application passes to on() and off(), and a value that
\* is not a function
AppHandlers == {<< "fn", h >> : h \in 1..MaxHandlers}
NotAFunction == << "value", 0 >>
\* the handleResponse closure of the r-th request, and its requestId: the
\* 13 base-36 digits of Math.random() are taken to differ between requests
handleResponseOf(r) == << "handleResponse", r >>
requestIdOf(r) == r
ForeignRequestId == 0

\* Map.prototype.set and Map.prototype.delete
mapSet(m, k, v) == [x \in (DOMAIN m) \cup {k} |-> IF x = k THEN v ELSE m[x]]
mapDelete(m, k) == [x \in (DOMAIN m) \ {k} |-> m[x]]

\* The table and the promises as one value, so that the callbacks compose.
Hk ==
  [ isConnected |-> isConnected, messageHandlers |-> messageHandlers,
    requests |-> requests, threw |-> FALSE ]

HookCommit(s) ==
  /\ isConnected' = s.isConnected
  /\ messageHandlers' = s.messageHandlers
  /\ requests' = s.requests
  /\ UNCHANGED << clientVars, ctxVars, serverVars, delayVars, utilVars >>

\* on(messageType, handler)
on(s, messageType, handler) ==
  IF handler = NotAFunction
  THEN [s EXCEPT !.threw = TRUE]
  ELSE LET m == IF messageType \in DOMAIN s.messageHandlers
                THEN s.messageHandlers
                ELSE mapSet(s.messageHandlers, messageType, {})
       IN [s EXCEPT !.messageHandlers =
                      mapSet(m, messageType, m[messageType] \cup {handler})]

\* off() that deletes the handler and leaves the type's empty Set in the Map
offKeepsEmptySet(s, messageType, handler) ==
  IF messageType \in DOMAIN s.messageHandlers
  THEN [s EXCEPT !.messageHandlers =
          mapSet(s.messageHandlers, messageType,
                 s.messageHandlers[messageType] \ {handler})]
  ELSE s

\* off(messageType, handler)
off(s, messageType, handler) ==
  IF messageType \in DOMAIN s.messageHandlers
  THEN LET remaining == s.messageHandlers[messageType] \ {handler}
       IN IF remaining = {}
          THEN [s EXCEPT !.messageHandlers =
                           mapDelete(s.messageHandlers, messageType)]
          ELSE [s EXCEPT !.messageHandlers =
                           mapSet(s.messageHandlers, messageType, remaining)]
  ELSE s

\* the function on(messageType, handler) returns
unsubscribe(s, messageType, handler) ==
  IF messageType \in DOMAIN s.messageHandlers
  THEN LET remaining == s.messageHandlers[messageType] \ {handler}
       IN IF remaining = {}
          THEN [s EXCEPT !.messageHandlers =
                           mapDelete(s.messageHandlers, messageType)]
          ELSE [s EXCEPT !.messageHandlers =
                           mapSet(s.messageHandlers, messageType, remaining)]
  ELSE s

\* resolve and reject of the r-th promise: a settled promise stays as it is
settle(s, r, state, why) ==
  IF s.requests[r].state = "pending"
  THEN [s EXCEPT !.requests[r].state = state, !.requests[r].why = why]
  ELSE s

\* cleanup(): clearTimeout(timeoutId); off(responseType, handleResponse)
cleanup(s, r) ==
  off([s EXCEPT !.requests[r].timer = FALSE],
      responseType(s.requests[r].type), handleResponseOf(r))

\* handleResponse that settles on any message of its type
handleResponseAnyId(s, r, message) ==
  IF message.error
  THEN settle(cleanup(s, r), r, "rejected", "error")
  ELSE settle(cleanup(s, r), r, "resolved", "payload")

\* handleResponse(message) of the r-th request
handleResponse(s, r, message) ==
  IF message.requestId = requestIdOf(r)
  THEN IF message.error
       THEN settle(cleanup(s, r), r, "rejected", "error")
       ELSE settle(cleanup(s, r), r, "resolved", "payload")
  ELSE s

\* the callback of the request's setTimeout
requestTimeout(s, r) == settle(cleanup(s, r), r, "rejected", "timeout")

\* request(type, payload, timeout): the executor of the promise. sendMessage
\* is async and is given an object, so the promise it returns is fulfilled
\* and the .catch callback does not run.
request(s, type) ==
  LET r == Len(s.requests) + 1
  IN IF ~s.isConnected
     THEN [s EXCEPT !.requests =
             Append(@, [state |-> "rejected", why |-> "notConnected",
                        type |-> type, timer |-> FALSE])]
     ELSE on([s EXCEPT !.requests =
                Append(@, [state |-> "pending", why |-> "",
                           type |-> type, timer |-> TRUE])],
             responseType(type), handleResponseOf(r))

\* onmessage, default branch: handlers.forEach over the Set of message.type.
\* The application's functions leave the table and the promises alone.
RECURSIVE forEachHandler(_, _, _)
forEachHandler(s, r, message) ==
  IF r > Len(s.requests)
  THEN s
  ELSE forEachHandler(
         IF /\ message.type \in DOMAIN s.messageHandlers
            /\ handleResponseOf(r) \in s.messageHandlers[message.type]
         THEN handleResponse(s, r, message)
         ELSE s,
         r + 1, message)

hookOnMessage(s, message) ==
  IF message.type \in DOMAIN s.messageHandlers
  THEN forEachHandler(s, 1, message)
  ELSE s

HookMessages ==
  [type : EventTypes, requestId : 0..MaxRequests, error : BOOLEAN]

\* ------------------------------------------------------- actions (hook)

HookOn ==
  \E messageType \in EventTypes, handler \in AppHandlers \cup {NotAFunction} :
    HookCommit(on(Hk, messageType, handler))

HookOff ==
  \E messageType \in EventTypes, handler \in AppHandlers :
    HookCommit(off(Hk, messageType, handler))

\* any of the functions on() has returned; one that on() has not returned
\* yet would find nothing to delete
HookUnsubscribe ==
  \E messageType \in EventTypes, handler \in AppHandlers :
    HookCommit(unsubscribe(Hk, messageType, handler))

HookRequest ==
  /\ Len(requests) < MaxRequests
  /\ \E type \in RequestTypes : HookCommit(request(Hk, type))

HookMessage ==
  \E message \in HookMessages :
    HookCommit(hookOnMessage(Hk, message))

HookRequestTimeout ==
  \E r \in 1..Len(requests) :
    /\ requests[r].timer
    /\ HookCommit(requestTimeout(Hk, r))

\* the provider renders with another connectionStatus
HookStatus ==
  HookCommit([Hk EXCEPT !.isConnected = ~isConnected])

NextHook ==
  \/ HookOn
  \/ HookOff
  \/ HookUnsubscribe
  \/ HookRequest
  \/ HookMessage
  \/ HookRequestTimeout
  \/ HookStatus

InitHook ==
  /\ ProviderIdle /\ CtxInit /\ ServerIdle /\ DelayIdle /\ UtilInit
  /\ HookInit

SpecHook == InitHook /\ [][NextHook]_vars

\* ------------------------------------------- client/src/utils/ws.js

\* The module's state as one value, so that its functions compose.
Ut ==
  [ ws |-> ws, wsSockets |-> wsSockets,
    wsReconnectAttempts |-> wsReconnectAttempts, wsTimers |-> wsTimers,
    wsListeners |-> wsListeners ]

UtilCommit(s, op, k) ==
  /\ ws' = s.ws
  /\ wsSockets' = s.wsSockets
  /\ wsReconnectAttempts' = s.wsReconnectAttempts
  /\ wsTimers' = s.wsTimers
  /\ wsListeners' = s.wsListeners
  /\ lastUtilOp' = op
  /\ lastUtilSock' = k
  /\ UNCHANGED << clientVars, ctxVars, serverVars, delayVars, hookVars >>

\* new WebSocket(wsUrl): `by' is the function of the module that called
\* close() on the socket, `closedWhile' the readyState it had then
NewWebSocket ==
  [readyState |-> "CONNECTING", by |-> "none", closedWhile |-> "none"]

\* WebSocket.prototype.close of socket k, called by `by': nothing on a
\* CLOSING or CLOSED socket
webSocketClose(s, k, by) ==
  IF s.wsSockets[k].readyState \in {"CONNECTING", "OPEN"}
  THEN [s EXCEPT !.wsSockets[k] =
          [readyState |-> "CLOSING", by |-> by,
           closedWhile |-> s.wsSockets[k].readyState]]
  ELSE s

\* event.code of the close event of a socket. One that connectWS closed
\* (close() without a code) while OPEN reports 1005, no status received;
\* one that closeWS closed while OPEN reports its 1000; either reports
\* 1006 when the transport is lost before the closing handshake ends. A
\* socket closed while CONNECTING fails its connection: 1006. A socket
\* the module did not close reports the peer's code or 1006.
utilCloseCodes(sock) ==
  IF sock.by = "none" THEN {1000, 1006, 4002}
  ELSE IF sock.closedWhile = "CONNECTING" THEN {1006}
  ELSE IF sock.by = "connectWS" THEN {1005, 1006}
  ELSE {1000, 1006}

\* connectWS({ onEvent, onError })
connectWS(s) ==
  LET a == IF s.ws # 0 THEN webSocketClose(s, s.ws, "connectWS") ELSE s
  IN [a EXCEPT !.wsSockets = Append(@, NewWebSocket),
               !.ws = Len(s.wsSockets) + 1]

\* closeWS()
closeWS(s) ==
  IF s.ws # 0
  THEN [webSocketClose(s, s.ws, "closeWS") EXCEPT
          !.ws = 0, !.wsListeners = {}]
  ELSE s

\* ws.onopen; the PING goes to the server
wsOnopen(s) == [s EXCEPT !.wsReconnectAttempts = 0]

\* ws.onclose(event): the callback of the timer it sets is connectWS
wsOnclose(s, code) ==
  IF code # 1000 /\ s.wsReconnectAttempts < maxReconnectAttempts
  THEN [s EXCEPT !.wsReconnectAttempts = @ + 1, !.wsTimers = @ + 1]
  ELSE s

\* addWSEventListener(fn) and removeWSEventListener(fn)
WsListenerFns == 1..MaxWsListeners
addWSEventListener(s, fn) == [s EXCEPT !.wsListeners = @ \cup {fn}]
removeWSEventListener(s, fn) == [s EXCEPT !.wsListeners = @ \ {fn}]

\* AuthProvider.logout: closeWS(), then connectWS() as guest
logout(s) == connectWS(closeWS(s))

\* ----------------------------------------------- actions (utils/ws.js)

\* AuthProvider's effect or main.jsx calls connectWS
UtilConnectWS ==
  /\ Len(wsSockets) < MaxWsSockets
  /\ UtilCommit(connectWS(Ut), "connectWS", 0)

\* AuthProvider's effect cleanup calls closeWS
UtilCloseWS == UtilCommit(closeWS(Ut), "closeWS", 0)

UtilLogout ==
  /\ Len(wsSockets) < MaxWsSockets
  /\ UtilCommit(logout(Ut), "logout", 0)

\* socket k opens
UtilSocketOpen ==
  \E k \in 1..Len(wsSockets) :
    /\ wsSockets[k].readyState = "CONNECTING"
    /\ UtilCommit(wsOnopen([Ut EXCEPT !.wsSockets[k].readyState = "OPEN"]),
                  "onopen", k)

\* the close event of socket k: its onclose is still attached
UtilSocketClose ==
  \E k \in 1..Len(wsSockets) :
    /\ wsSockets[k].readyState \in {"CONNECTING", "OPEN", "CLOSING"}
    /\ \E code \in utilCloseCodes(wsSockets[k]) :
         UtilCommit(wsOnclose([Ut EXCEPT !.wsSockets[k].readyState = "CLOSED"],
                              code),
                    "onclose", k)

\* a timer set by onclose fires
UtilReconnectTimer ==
  /\ wsTimers > 0
  /\ Len(wsSockets) < MaxWsSockets
  /\ UtilCommit(connectWS([Ut EXCEPT !.wsTimers = @ - 1]), "reconnectTimer", 0)

UtilAddListener ==
  \E fn \in WsListenerFns :
    UtilCommit(addWSEventListener(Ut, fn), "addWSEventListener", 0)

UtilRemoveListener ==
  \E fn \in WsListenerFns :
    UtilCommit(removeWSEventListener(Ut, fn), "removeWSEventListener", 0)

NextUtil ==
  \/ UtilConnectWS
  \/ UtilCloseWS
  \/ UtilLogout
  \/ UtilSocketOpen
  \/ UtilSocketClose
  \/ UtilReconnectTimer
  \/ UtilAddListener
  \/ UtilRemoveListener

InitUtil ==
  /\ ProviderIdle /\ CtxInit /\ ServerIdle /\ DelayIdle /\ HookInit
  /\ UtilInit

SpecUtil == InitUtil /\ [][NextUtil]_vars

\* ------------------------------------------------------------------ claims

Count(seq, x) == Cardinality({i \in 1..Len(seq) : seq[i] = x})

CountType(seq, ty) == Cardinality({i \in 1..Len(seq) : seq[i].type = ty})

QueueIds == {messageQueue[i].id : i \in 1..Len(messageQueue)}

\* C2: every message accepted into the queue leaves it only by being
\* transmitted to the server exactly once or by being reported as
\* permanently failed, and none is transmitted twice.
C2_RemovedOnlyBySendOrReport ==
  \A m \in accepted :
    /\ Count(received, m) <= 1
    /\ m \notin QueueIds => (Count(received, m) = 1 \/ m \in reported)

\* C3: the message queue never holds more than MAX_QUEUE_SIZE entries.
C3_QueueBounded == Len(messageQueue) <= MAX_QUEUE_SIZE

\* C4: a sendMessage made while not CONNECTED with the queue holding
\* MAX_QUEUE_SIZE entries returns the failure result and leaves the queue as
\* it was; below capacity a call that reports success appended its message
\* at the tail and a call that reports failure changed nothing.
C4_FullQueueRejects ==
  [][ (lastOp' = "sendMessage" /\ connectionStatus # "CONNECTED") =>
        IF Len(messageQueue) >= MAX_QUEUE_SIZE
          THEN lastResult' = FALSE /\ messageQueue' = messageQueue
          ELSE IF lastResult'
                 THEN /\ Len(messageQueue') = Len(messageQueue) + 1
                      /\ SubSeq(messageQueue', 1, Len(messageQueue)) = messageQueue
                      /\ messageQueue'[Len(messageQueue')].id = lastArg'
                 ELSE messageQueue' = messageQueue ]_vars

\* capacity + 1 messages were offered while disconnected: capacity accepted,
\* the last one rejected
C4_Witness ==
  /\ lastOp = "sendMessage"
  /\ lastResult = FALSE
  /\ connectionStatus # "CONNECTED"
  /\ nextMsg = MAX_QUEUE_SIZE + 1
  /\ Cardinality(accepted) = MAX_QUEUE_SIZE
  /\ Len(messageQueue) = MAX_QUEUE_SIZE
  /\ received = << >>

\* C5: at any instant the client owns at most one transport that is
\* connecting or open.
C5_AtMostOneTransport ==
  Cardinality({k \in SockIds : readyState[k] \in {"CONNECTING", "OPEN"}}) <= 1

\* C6: after disconnect(permanent=true), and until the application calls
\* connect() or reconnect(), no new transport is opened.
C6_NoTransportAfterPermanentDisconnect ==
  [][ (isExplicitDisconnect /\ nSockets' > nSockets) =>
        lastOp' \in {"connect", "reconnect"} ]_vars

\* C7: once an unexpected closure has found the attempt counter at
\* MAX_RECONNECT_ATTEMPTS the state is ERROR with no reconnect timer pending,
\* and stays so until the application calls reconnect() (or connect() or
\* disconnect()) itself.
C7_ErrorIsTerminal ==
  [][ /\ (lastOp' = "onclose" /\ connectionStatus' = "ERROR"
            /\ reconnectAttempts' >= MAX_RECONNECT_ATTEMPTS)
          => reconnectPending' = 0
      /\ (connectionStatus = "ERROR"
            /\ reconnectAttempts >= MAX_RECONNECT_ATTEMPTS
            /\ lastOp' \notin {"reconnect", "connect", "disconnect",
                               "disconnectPermanent"})
          => (connectionStatus' = "ERROR" /\ reconnectPending' = 0) ]_vars

\* C8: the number of pending liveness probes is 0 or 1.
C8_AtMostOnePendingProbe == Cardinality(pendingPings) <= 1

\* a probe is pending on a connection made after a reconnect, i.e. under a
\* heartbeat that was started again
C8_Witness ==
  /\ Cardinality(pendingPings) = 1
  /\ lastOp = "heartbeat"
  /\ nSockets >= 2

\* C9: when a probe's timeout fires the client is, right after, RECONNECTING
\* with a connect scheduled, or in ERROR with the attempts exhausted; a PONG
\* with the id of a pending probe removes the probe (and with it its
\* timeout) and starts no reconnection.
C9_ProbeTimeoutAndPong ==
  [][ /\ lastOp' = "pingTimeout" =>
           \/ connectionStatus' = "RECONNECTING" /\ reconnectPending' > 0
           \/ connectionStatus' = "ERROR"
                /\ reconnectAttempts' >= MAX_RECONNECT_ATTEMPTS
      /\ (lastOp' = "pong" /\ lastArg' \in pendingPings) =>
           /\ pendingPings' = pendingPings \ {lastArg'}
           /\ connectionStatus' = connectionStatus
           /\ reconnectPending' = reconnectPending
           /\ reconnectAttempts' = reconnectAttempts ]_vars


\* C10: a channel whose request carries no token, or one that fails
\* verification, is closed by the server, is not in the registry, has no
\* ping interval and is sent no CONNECTION_ESTABLISHED; every registered
\* channel has the identity its verified token decodes to; and every
\* channel whose token verified has been sent CONNECTION_ESTABLISHED
\* exactly once.
C10_AuthGate ==
  \A c \in Channels :
    /\ clients[c] # 0 =>
         jwtVerifies(reqToken[c]) /\ clients[c] = decodedId(reqToken[c])
    /\ (wsState[c] # "NONE" /\ ~jwtVerifies(reqToken[c])) =>
         /\ wsState[c] \in {"CLOSING", "CLOSED"}
         /\ closeCode[c] # 0
         /\ clients[c] = 0
         /\ c \notin pingIntervals
         /\ CountType(sent[c], "CONNECTION_ESTABLISHED") = 0
    /\ (wsState[c] # "NONE" /\ jwtVerifies(reqToken[c])) =>
         CountType(sent[c], "CONNECTION_ESTABLISHED") = 1

\* C11: a channel whose token fails verification (expired or badly signed)
\* is closed by the server with code 4002, and no CONNECTION_ESTABLISHED is
\* sent on it.
C11_InvalidTokenClosedWith4002 ==
  \A c \in Channels :
    (wsState[c] # "NONE" /\ reqToken[c] = BadToken) =>
      /\ closeCode[c] = 4002
      /\ CountType(sent[c], "CONNECTION_ESTABLISHED") = 0

\* C12: every authenticated, registered channel that is open has its
\* inactivity timeout armed (the timer whose expiry closes the channel with
\* 4008), so that a client that stays silent is eventually closed and removed
\* from the registry.
C12_InactivityTimeoutKept ==
  \A c \in Channels :
    (clients[c] # 0 /\ wsState[c] = "OPEN") =>
      (c \in timeoutArmed /\ c \in connectionTimeouts)

Last(seq) == seq[Len(seq)]

\* the channels to which a handler that took the server from `sent' to the
\* state r has sent something
DeliveredTo(r) == {c \in Channels : r.sent[c] # sent[c]}

\* C13: whatever the state of the server, a frame on a registered channel
\* that is malformed JSON, JSON that is no object, or of an unknown type is
\* answered with one ERROR on that channel and with nothing else: the channel
\* stays open and registered, and the timers stay as they are.
C13_MessageErrorsKeepChannel ==
  \A c \in Channels :
    (~crashed /\ clients[c] # 0 /\ c \in listeners) =>
      \A kind \in {"MALFORMED", "NONOBJECT", "OTHER"} :
        LET r == onMessage(Sv, c, kind, NoId)
        IN  /\ r.sent = [sent EXCEPT ![c] = Append(@, Msg("ERROR", NoId))]
            /\ wsState[c] = "OPEN"
            /\ r.wsState = wsState
            /\ r.clients = clients
            /\ c \in pingIntervals
            /\ r.pingIntervals = pingIntervals
            /\ r.connectionTimeouts = connectionTimeouts
            /\ r.timeoutArmed = timeoutArmed
            /\ r.listeners = listeners
            /\ r.closeCode = closeCode
            /\ ~r.crashed

\* a registered channel has just been answered with an ERROR and is still
\* open, registered and pinged
C13_Witness ==
  \E c \in Channels :
    /\ lastSrvOp = "message" /\ lastSrvCh = c
    /\ Len(sent[c]) >= 2 /\ Last(sent[c]).type = "ERROR"
    /\ clients[c] # 0 /\ wsState[c] = "OPEN" /\ c \in pingIntervals

\* C14: a PING on a registered open channel is answered with exactly one
\* PONG on that channel, after everything sent before, and the PONG carries
\* the id of the PING (none where the PING has none).
C14_PongEchoesId ==
  \A c \in Channels :
    (~crashed /\ clients[c] # 0 /\ c \in listeners /\ wsState[c] = "OPEN") =>
      \A id \in SrvPingIds :
        onMessage(Sv, c, "PING", id).sent =
          [sent EXCEPT ![c] = Append(@, Msg("PONG", id))]

\* C15: broadcast(message, { exclude, includeOnly }) sends the message once
\* to the open channels that are registered under an identity that
\* includeOnly names (under any identity when includeOnly is null) and that
\* exclude does not name, and sends nothing to any other channel.
C15_BroadcastFilter ==
  ~crashed =>
    \A exclude \in SUBSET Users, filtered \in BOOLEAN, includeOnly \in SUBSET Users :
      LET r == broadcast(Sv, exclude, filtered, includeOnly)
          expected == {c \in Channels :
                         /\ wsState[c] = "OPEN"
                         /\ clients[c] \in Users
                         /\ filtered => clients[c] \in includeOnly
                         /\ clients[c] \notin exclude}
      IN  /\ DeliveredTo(r) = expected
          /\ \A c \in expected :
                r.sent[c] = Append(sent[c], Msg("BROADCAST", NoId))

\* a broadcast has reached one open channel and left out another, which is
\* registered under another identity
C15_Witness ==
  \E c, d \in Channels :
    /\ lastSrvOp = "broadcast"
    /\ wsState[c] = "OPEN" /\ wsState[d] = "OPEN"
    /\ clients[c] # 0 /\ clients[d] # 0 /\ clients[c] # clients[d]
    /\ Last(sent[c]).type = "BROADCAST"
    /\ Last(sent[d]).type = "CONNECTION_ESTABLISHED"

\* C16: sendToUser(identity, message) sends the message once to every open
\* channel registered under that identity and to no other channel.
C16_SendToUserReachesIdentity ==
  ~crashed =>
    \A u \in Users :
      LET r == sendToUser(Sv, u)
          expected == {c \in Channels : wsState[c] = "OPEN" /\ clients[c] = u}
      IN  /\ DeliveredTo(r) = expected
          /\ \A c \in expected :
                r.sent[c] = Append(sent[c], Msg("UNICAST", NoId))

\* C17: whatever the state of the server, cleanupClient run twice in a row on
\* a channel throws nothing and leaves the registry and the timer maps as
\* one run leaves them; the 'close' listener of a channel whose 'error'
\* listener has run throws nothing.
C17_CleanupClientIdempotent ==
  /\ \A c \in Channels :
       LET once == cleanupClient(Sv, c)
           twice == cleanupClient(once, c)
       IN  ~once.threw /\ ~twice.threw /\ twice = once
  /\ (lastSrvOp \in {"error", "close"}) => ~lastSrvThrew

\* the 'close' listener has run on a channel after its 'error' listener
C17_Witness ==
  /\ lastSrvOp = "close"
  /\ lastSrvCh \in errored \cap listeners
  /\ jwtVerifies(reqToken[lastSrvCh])
  /\ clients[lastSrvCh] = 0

\* C18: for every attempt counter n at which handleReconnect computes a
\* delay, the delay is min(base * 1.5^n, max_delay) + jitter in whole
\* milliseconds (Math.floor) with 0 <= jitter < 1000; it is at most
\* max_delay + max_jitter; and the part without jitter does not decrease
\* from one attempt to the next and is never above max_delay.
C18_ReconnectDelayBounded ==
  delay # NoDelay =>
    LET n == delayAttempt
        b == baseDelay(n)
        cap == MAX_RECONNECT_DELAY * JitterScale
    IN  /\ 0 <= delayJitter /\ delayJitter < MAX_JITTER * JitterScale
        /\ delay * JitterScale <= b + delayJitter
        /\ b + delayJitter < (delay + 1) * JitterScale
        /\ n = 0 => b = RECONNECT_BASE_DELAY * JitterScale
        /\ n > 0 => \/ 2 * b = 3 * baseDelay(n - 1)
                    \/ b = cap /\ 3 * baseDelay(n - 1) >= 2 * cap
        /\ b <= cap
        /\ delay <= MAX_RECONNECT_DELAY + MAX_JITTER
        /\ \A m \in 0..n : baseDelay(m) <= b

\* a delay computed with the backoff at max_delay and the jitter at the top
\* of its range
C18_Witness ==
  /\ delay = MAX_RECONNECT_DELAY + MAX_JITTER - 1
  /\ baseDelay(delayAttempt) = MAX_RECONNECT_DELAY * JitterScale
  /\ baseDelay(delayAttempt - 1) < MAX_RECONNECT_DELAY * JitterScale

\* C19: when a transport closes with one of the server's authentication
\* failure codes (4001, 4002, 4003), the client has no reconnect scheduled
\* once its close handler has run and is not RECONNECTING.
C19_NoReconnectAfterAuthFailure ==
  (lastOp = "onclose" /\ lastArg \in {4001, 4002, 4003}) =>
    (reconnectPending = 0 /\ connectionStatus # "RECONNECTING")

\* C20: when disconnect(true) has returned, no timer of the client is armed:
\* not the heartbeat interval, not the timeout of a pending probe, not the
\* reconnect timeout, not the connection timeout.
C20_PermanentDisconnectCancelsTimers ==
  lastOp = "disconnectPermanent" =>
    /\ ~heartbeatInterval
    /\ pendingPings = {}
    /\ reconnectPending = 0
    /\ connectionTimeout = 0

\* the handleResponse closure of the r-th request is in no Set of the table
Unregistered(s, r) ==
  \A t \in DOMAIN s.messageHandlers :
    handleResponseOf(r) \notin s.messageHandlers[t]

\* C21: every promise request() returns settles exactly once. It is rejected
\* at once when the hook is not connected; while it is pending its timeout
\* is armed and its handler is registered for `${type}_RESPONSE'; the first
\* message of that type carrying its requestId resolves it with the payload,
\* or rejects it when the message has an error; a message with another
\* requestId or type leaves it as it is; the timeout rejects it; and once it
\* is settled its outcome never changes, its timeout is cleared and its
\* handler is no longer registered.
C21_RequestSettlesOnce ==
  /\ [](/\ \A r \in 1..Len(requests) :
             LET q == requests[r]
             IN /\ q.state \in {"pending", "resolved", "rejected"}
                /\ q.state = "pending" =>
                     /\ q.timer
                     /\ responseType(q.type) \in DOMAIN messageHandlers
                     /\ handleResponseOf(r)
                          \in messageHandlers[responseType(q.type)]
                     /\ requestTimeout(Hk, r).requests[r]
                          = [q EXCEPT !.state = "rejected", !.why = "timeout",
                                      !.timer = FALSE]
                     /\ Unregistered(requestTimeout(Hk, r), r)
                /\ q.state # "pending" => ~q.timer /\ Unregistered(Hk, r)
                /\ \A message \in HookMessages :
                     LET after == hookOnMessage(Hk, message)
                     IN IF /\ q.state = "pending"
                           /\ message.type = responseType(q.type)
                           /\ message.requestId = requestIdOf(r)
                        THEN /\ after.requests[r] =
                                  IF message.error
                                  THEN [q EXCEPT !.state = "rejected",
                                                 !.why = "error",
                                                 !.timer = FALSE]
                                  ELSE [q EXCEPT !.state = "resolved",
                                                 !.why = "payload",
                                                 !.timer = FALSE]
                             /\ Unregistered(after, r)
                        ELSE after.requests[r] = q
        /\ (~isConnected /\ Len(requests) < MaxRequests) =>
             \A type \in RequestTypes :
               LET after == request(Hk, type)
               IN /\ after.requests[Len(requests) + 1].state = "rejected"
                  /\ after.requests[Len(requests) + 1].why = "notConnected"
                  /\ after.messageHandlers = messageHandlers)
  /\ [][\A r \in 1..Len(requests) :
          requests[r].state # "pending" => requests'[r] = requests[r]]_vars

\* a response has resolved one request while another request of the same
\* type is still pending
C21_Witness ==
  /\ \E r1, r2 \in 1..Len(requests) :
       /\ requests[r1].state = "resolved"
       /\ requests[r1].why = "payload"
       /\ requests[r2].state = "pending"
       /\ requests[r1].type = requests[r2].type

\* C22: the handler table holds no type whose Set of subscribers is empty,
\* whatever on, off and the unsubscribe functions have done; a type may have
\* several subscribers; off or unsubscribe of the last subscriber of a type
\* removes the type's entry.
C22_NoEmptySubscriberSet ==
  /\ \A t \in DOMAIN messageHandlers : messageHandlers[t] # {}
  /\ \A t \in DOMAIN messageHandlers :
       \A h \in messageHandlers[t] :
         IF messageHandlers[t] = {h}
         THEN /\ t \notin DOMAIN off(Hk, t, h).messageHandlers
              /\ t \notin DOMAIN unsubscribe(Hk, t, h).messageHandlers
         ELSE /\ off(Hk, t, h).messageHandlers[t] = messageHandlers[t] \ {h}
              /\ unsubscribe(Hk, t, h).messageHandlers[t]
                   = messageHandlers[t] \ {h}
  /\ \A t \in EventTypes, h \in AppHandlers :
       /\ t \in DOMAIN on(Hk, t, h).messageHandlers
       /\ on(Hk, t, h).messageHandlers[t]
            = (IF t \in DOMAIN messageHandlers THEN messageHandlers[t] ELSE {})
                \cup {h}

\* a request has been settled and the off of its cleanup has removed the
\* entry of its response type, whose last subscriber its handler was, while
\* the other type has two subscribers
C22_Witness ==
  \E r \in 1..Len(requests), t \in EventTypes :
    /\ requests[r].state = "resolved"
    /\ responseType(requests[r].type) \notin DOMAIN messageHandlers
    /\ t \in DOMAIN messageHandlers
    /\ Cardinality(messageHandlers[t]) >= 2

\* C23: the client becomes CONNECTED only in the handler of a
\* CONNECTION_ESTABLISHED message, never in another handler such as onopen,
\* and every step into CONNECTED leaves the reconnect-attempt counter at 0,
\* the heartbeat interval armed and the queue drained or a further drain
\* scheduled. (The backoff interval is a ref the provider never writes after
\* its initialisation to RECONNECT_BASE_DELAY.)
C23_ConnectedOnlyOnEstablished ==
  [][(connectionStatus # "CONNECTED" /\ connectionStatus' = "CONNECTED") =>
       /\ lastOp' = "connectionEstablished"
       /\ reconnectAttempts' = 0
       /\ heartbeatInterval'
       /\ messageQueue' = << >> \/ drainTimers' = drainTimers + 1]_vars

\* C24: the heartbeat stops when the channel leaves CONNECTED: in every
\* state whose status is not CONNECTED the heartbeat interval is not armed,
\* and a tick of the heartbeat sends a PING only when the status is
\* CONNECTED.
C24_HeartbeatOnlyWhenConnected ==
  /\ [](connectionStatus # "CONNECTED" => ~heartbeatInterval)
  /\ [][(lastOp' = "heartbeat" /\ pendingPings' # pendingPings)
          => connectionStatus = "CONNECTED"]_vars

\* C25: whenever cleanupSocket runs with probes outstanding it returns
\* without raising, no probe is left in pendingPings, the transport is no
\* longer OPEN, and the close handler of an explicit disconnect, which runs
\* it first, leaves the status DISCONNECTED.
C25_CleanupSettlesProbes ==
  pendingPings # {} =>
    /\ ~cleanupSocket(St).threw
    /\ cleanupSocket(St).pendingPings = {}
    /\ ~SocketIsOpen(cleanupSocket(St))
    /\ isExplicitDisconnect =>
         /\ ~onclose(St).threw
         /\ onclose(St).connectionStatus = "DISCONNECTED"

\* C26: once a channel of the server has closed, for whatever cause (a close
\* by either side, an error, a rejection during authentication), it has no
\* entry in clients, pingIntervals or connectionTimeouts, and no timer armed
\* for it is pending.
C26_ClosedChannelLeavesNothing ==
  \A c \in Channels :
    wsState[c] = "CLOSED" =>
      /\ clients[c] = 0
      /\ c \notin pingIntervals
      /\ c \notin connectionTimeouts
      /\ c \notin timeoutArmed

\* C27: a run of processMessageQueue leaves every entry it took from the
\* queue in one of three ways: the message was transmitted; or the
\* transmission failed and the entry is in the queue again with its retry
\* count one higher; or its retry count had passed the maximum and it was
\* dropped and reported as permanently failed. No entry's retry count goes
\* beyond the maximum by more than one, so each entry is attempted a bounded
\* number of times and the drain of a finite queue comes to an end.
C27_FailedEntryRetriedThenDropped ==
  /\ [](\A i \in 1..Len(messageQueue) :
          messageQueue[i].retryCount <= MaxRetries + 1)
  /\ [][lastOp' \in {"onopen", "drainTimer"} =>
          \A i \in 1..Len(messageQueue) :
            LET e == messageQueue[i]
            IN \/ \E j \in 1..Len(messageQueue') : messageQueue'[j] = e
               \/ Count(received', e.id) = Count(received, e.id) + 1
               \/ /\ e.retryCount <= MaxRetries
                  /\ \E j \in 1..Len(messageQueue') :
                       /\ messageQueue'[j].id = e.id
                       /\ messageQueue'[j].retryCount = e.retryCount + 1
               \/ /\ e.retryCount >= MaxRetries
                  /\ e.id \in reported']_vars

\* C28: at most one reconnect timer is pending at any time; the status is
\* ERROR only when no reconnect timer is pending; and a failed probe that
\* calls handleReconnect while the status is RECONNECTING leaves the status
\* and the pending timer as they are.
C28_SingleReconnectPending ==
  /\ [](reconnectPending <= 1)
  /\ [](connectionStatus = "ERROR" => reconnectPending = 0)
  /\ [][(connectionStatus = "RECONNECTING" /\ lastOp' = "pingTimeout") =>
          /\ connectionStatus' = "RECONNECTING"
          /\ reconnectPending' = reconnectPending
          /\ reconnectAttempts' = reconnectAttempts]_vars

\* C29: a call of connectWS creates exactly one socket, which becomes the
\* current one, and the socket it replaces is closed; the close event of a
\* socket that connectWS replaced sets no reconnect timer and leaves the
\* reconnect counter alone, so that a replacement is not followed by a
\* further connection.
C29_ReplacedSocketDoesNotReconnect ==
  /\ [][lastUtilOp' = "connectWS" =>
          /\ Len(wsSockets') = Len(wsSockets) + 1
          /\ ws' = Len(wsSockets')
          /\ ws # 0 => wsSockets'[ws].readyState \in {"CLOSING", "CLOSED"}]_vars
  /\ [][(lastUtilOp' = "onclose" /\ wsSockets[lastUtilSock'].by = "connectWS")
          => /\ wsTimers' = wsTimers
             /\ wsReconnectAttempts' = wsReconnectAttempts]_vars

\* C30: after closeWS() has set the connection to null, only an explicit
\* call of connectWS (by the application, or by logout) creates a socket:
\* neither the close event of the socket that closeWS closed sets a
\* reconnect timer, nor does a timer that was pending open a connection.
C30_NoConnectionAfterCloseWS ==
  /\ [][(ws = 0 /\ ws' # 0) => lastUtilOp' \in {"connectWS", "logout"}]_vars
  /\ [][(lastUtilOp' = "onclose" /\ wsSockets[lastUtilSock'].by = "closeWS")
          => wsTimers' = wsTimers]_vars

==============================================================================
